---- MODULE Spec2Model ----
(***************************************************************************)
(* Real-time layer of avid-server: the socket.io connection handler, the   *)
(* client registry, room membership, the channel event broadcaster and the *)
(* event batcher (src/src/sockets.ts, utility/batcher, utility/cache).     *)
(*                                                                         *)
(* Record ids ("domains:d1") are pairs <<table, key>>; the empty string is *)
(* <<"", "">>.  A room name is a pair <<id, suffix>>: the room `id` itself *)
(* has suffix "", the room `${id}.inactive` has suffix ".inactive".        *)
(* A JavaScript object used as a map is a function whose DOMAIN is the set *)
(* of keys that are present.                                               *)
(*                                                                         *)
(* A query sent to the database takes effect when it is sent (one ordered  *)
(* connection); its result reaches the awaiting handler in a later step.   *)
(***************************************************************************)
EXTENDS Integers, Sequences, FiniteSets, TLC

\* ------------------------------------------------------------------ bounds
MaxTime == 1
MaxSwitch == 3
MaxEmit == 2
MaxCall == 3

\* ---------------------------------------------------------------- universe
Profiles == {"pA", "pB", "pC"}
Sockets == {"s1", "s2", "s3", "s4", "s5"}
NoUser == "nouser"
NoSocket == "nosocket"

\* the identity carried by the token each connection presents; the token of
\* s4 is missing or does not verify
Token == [s \in Sockets |-> CASE s = "s3" -> "pB"
                               [] s = "s4" -> NoUser
                               [] s = "s5" -> "pC"
                               [] OTHER -> "pA"]

D1 == <<"domains", "d1">>
D2 == <<"domains", "d2">>
C1 == <<"channels", "c1">>
C2 == <<"channels", "c2">>
C3 == <<"channels", "c3">>
C4 == <<"channels", "c4">>
Empty == <<"", "">>
Null == <<"null", "">>

Domains == {D1, D2}
Channels == {C1, C2, C3, C4}
\* the `domain` field of each channel record
ChannelDomain == [c \in Channels |-> IF c = C3 THEN D2 ELSE D1]
\* the member_of edges of each profile; pC is a member of no domain
MemberOf == [p \in Profiles |-> CASE p = "pA" -> {D1, D2}
                                  [] p = "pB" -> {D1}
                                  [] OTHER -> {}]

Times == 0..MaxTime

\* ------------------------------------------------------------ map helpers
EmptyMap == [k \in {} |-> 0]
Has(m, k) == k \in DOMAIN m
Put(m, k, v) == [x \in (DOMAIN m) \cup {k} |-> IF x = k THEN v ELSE m[x]]
GetOr(m, k, d) == IF k \in DOMAIN m THEN m[k] ELSE d

\* ------------------------------------------------------------- id helpers
\* id(record): the part after the last ':'
id(record) == record[Len(record)]

\* `${table}:${k}`
RecordKey(table, k) == <<table, k>>

\* `${channel_id}.inactive`
_inactive(channel_id) == <<channel_id, ".inactive">>

\* the room named by an id itself
Room(name) == <<name, "">>

\* _recordKeys(map, table): every key k becomes `${table}:${k}`
_recordKeys(map, table) ==
  [k2 \in {RecordKey(table, k) : k \in DOMAIN map} |-> map[id(k2)]]

\* _recordKeys(map, 'domains', x => _recordKeys(x, 'channels'))
_recordKeys2(map) ==
  [k2 \in {RecordKey("domains", k) : k \in DOMAIN map} |->
      _recordKeys(map[id(k2)], "channels")]

\* ----------------------------------------------------------------- state
VARIABLES
  clock,          \* the wall clock (Date.now(), time::now())
  connected,      \* socket.connected
  rooms,          \* socket.rooms (adapter membership)
  hpc,            \* position of each connection's 'connection' handler
  pend,           \* result awaited by each connection handler
  client,         \* the Client object built for each connection
  _clients,       \* profile id -> connection whose Client is registered
  sw,             \* 'general:switch-room' handlers in flight, per connection
  db_app,         \* app_states records
  db_last_event,  \* channels._last_event
  db_online,      \* profiles.online
  cache,          \* _caches.domain_channels
  em,             \* emitChannelEvent calls in flight, with what each delivered
  dcRuns,         \* number of times each 'disconnect' listener was invoked
  nSwitch,        \* number of switch-room events received so far
  nEmit,          \* number of emitChannelEvent calls made so far
  _batches,       \* batch key -> accumulator of the batch in progress
  calls,          \* per batch in progress: the deltas passed for each emoji
  nCall,          \* number of emitBatchEvent calls made so far
  nFlush,         \* number of flush timers that fired
  timers,         \* batch key -> number of flush timers set and not yet fired
  nSent,          \* number of 'chat:reactions' broadcasts made
  signals         \* the other signals emitted so far: <<event, argument, to>>

sockVars == <<connected, rooms, hpc, pend, client, _clients, sw, dcRuns, nSwitch>>
dbVars == <<db_app, db_last_event, db_online, cache>>
emitVars == <<em, nEmit, nSent>>
batchVars == <<_batches, calls, nCall, nFlush, timers>>

vars == <<clock, sockVars, dbVars, emitVars, batchVars, signals>>

\* ------------------------------------------------------- persisted state
NoApp == [exists |-> FALSE, domain |-> Null, channels |-> EmptyMap,
          last_accessed |-> EmptyMap, pings |-> EmptyMap]

\* patch op 'add' at last_accessed/<dk>/<ck>
SetLastAccessed(rec, dk, ck, t) ==
  [rec EXCEPT !.exists = TRUE,
              !.last_accessed = Put(@, dk, Put(GetOr(@, dk, EmptyMap), ck, t))]

\* the patch without its op on last_accessed
SwitchPatch_NoAccessTime(rec, domain_id, channel_id, t) ==
  LET r1 == [rec EXCEPT !.exists = TRUE, !.domain = domain_id]
      r2 == [r1 EXCEPT !.channels = Put(@, id(domain_id), channel_id)]
  IN [r2 EXCEPT !.pings = Put(@, id(channel_id), 0)]

\* the four patch ops of the switch-room transaction
SwitchPatch(rec, domain_id, channel_id, t) ==
  LET r1 == [rec EXCEPT !.exists = TRUE, !.domain = domain_id]
      r2 == [r1 EXCEPT !.channels = Put(@, id(domain_id), channel_id)]
      r3 == SetLastAccessed(r2, id(domain_id), id(channel_id), t)
  IN [r3 EXCEPT !.pings = Put(@, id(channel_id), 0)]

\* the patches are applied without the condition '$allowed = true'
SwitchTransaction_Unconditional(rec, domain_id, channel_id, allowed, t) ==
  SwitchPatch(rec, domain_id, channel_id, t)

\* sockets.ts 291-332: the transaction patches the app state if $allowed
SwitchTransaction(rec, domain_id, channel_id, allowed, t) ==
  IF allowed THEN SwitchPatch(rec, domain_id, channel_id, t) ELSE rec

\* getUserInfo(profile_id)
getUserInfo(profile_id) ==
  LET state == db_app[profile_id]
  IN [domains |-> MemberOf[profile_id],
      hasApp |-> state.exists,
      domain |-> state.domain,
      channels |-> _recordKeys(state.channels, "domains"),
      last_accessed |-> _recordKeys2(state.last_accessed)]

NoPend == [kind |-> "none"]
NoClient == [made |-> FALSE, domains |-> {}, last_accessed |-> EmptyMap,
             current_domain |-> Empty, current_channel |-> Empty]

\* ---------------------------------------------------- domain channels cache
\* no usable cached object: none at all, or one older than invalidate_time
\* (its data is never read again: get() fetches and overwrites it)
NoEntry == [valid |-> FALSE, data |-> EmptyMap]

\* the fetcher of _caches.domain_channels: id and _last_event of the channels
\* of a domain
FetchDomainChannels(domain_id) ==
  [c \in {c \in Channels : ChannelDomain[c] = domain_id} |-> db_last_event[c]]

\* AsyncCache.get finds a usable cached object
CacheHit(domain_id) == cache[domain_id].valid

\* AsyncCache.get after its fetch resolved: the cached object holds the data
CacheStore(domain_id, data) ==
  [cache EXCEPT ![domain_id] = [valid |-> TRUE, data |-> data]]

\* ------------------------------------------------------- socket.io rooms
\* socket.join(rs): after the socket was closed, join is a no-op
Join(rs, joined, isConnected) == IF isConnected THEN rs \cup joined ELSE rs

\* socket.leave(r) for every r of left
Leave(rs, left) == rs \ left

\* the channels seen completely: last accessed at or after the last event
\* (sockets.ts 188-202 and 368-378)
SeenRooms(last_accessed, domain_id, current, lastEvent) ==
  LET m == GetOr(last_accessed, domain_id, EmptyMap)
  IN {_inactive(c) : c \in {k \in DOMAIN m :
          k # current /\ Has(lastEvent, k) /\ m[k] >= lastEvent[k]}}

\* the connection handler joining the room of every domain of the client
ConnectRooms_EveryDomain(cl, lastEvent) ==
  SeenRooms(cl.last_accessed, cl.current_domain, cl.current_channel, lastEvent)
    \cup (IF cl.current_channel # Empty THEN {Room(cl.current_channel)} ELSE {})
    \cup {Room(d) : d \in cl.domains}

\* the rooms the connection handler joins (sockets.ts 204-209)
ConnectRooms(cl, lastEvent) ==
  SeenRooms(cl.last_accessed, cl.current_domain, cl.current_channel, lastEvent)
    \cup (IF cl.current_channel # Empty THEN {Room(cl.current_channel)} ELSE {})
    \cup (IF cl.current_domain # Empty THEN {Room(cl.current_domain)} ELSE {})

\* --------------------------------------------------- connection handler
\* the Client object of sockets.ts 153-169
MakeClient(profile_id, info) ==
  LET dom == IF info.hasApp /\ info.domain # Null THEN info.domain ELSE Empty
  IN [made |-> TRUE,
      domains |-> info.domains,
      last_accessed |-> IF info.hasApp THEN info.last_accessed ELSE EmptyMap,
      current_domain |-> dom,
      current_channel |->
        IF info.hasApp /\ Has(info.channels, dom) THEN info.channels[dom]
        ELSE Empty]

\* the socket on which line 178 calls disconnect(): the socket of the entry
\* found in the registry after line 175 has stored the new client
PrevSocketTarget(registry, profile_id) == registry[profile_id]

\* a rejection that tells the connection nothing
NotAuthenticated_Silent(sig, s) == sig

\* sockets.ts 139-140: socket.emit('error', 'not authenticated', 401)
NotAuthenticated(sig, s) == sig \cup {<<"error", 401, s>>}

\* sockets.ts 135-148: the token is verified and the user info is requested
Connection(s) ==
  /\ hpc[s] = "new"
  /\ IF Token[s] = NoUser
       \* socket.emit('error', 'not authenticated', 401); socket.disconnect()
       THEN /\ hpc' = [hpc EXCEPT ![s] = "rejected"]
            /\ signals' = NotAuthenticated(signals, s)
            /\ UNCHANGED <<connected, pend>>
       ELSE /\ hpc' = [hpc EXCEPT ![s] = "getUserInfo"]
            /\ connected' = [connected EXCEPT ![s] = TRUE]
            /\ UNCHANGED signals
            \* atStart records channels._last_event as it is when the
            \* connection arrives (read by no handler)
            /\ pend' = [pend EXCEPT ![s] =
                         [kind |-> "info", info |-> getUserInfo(Token[s]),
                          atStart |-> db_last_event]]
  /\ UNCHANGED <<clock, rooms, client, _clients, sw, dcRuns, nSwitch, dbVars,
                 emitVars, batchVars>>

\* sockets.ts 204-215 and 217-464: rooms are joined, the profile is marked
\* online and the listeners are registered
ConnectionJoin(s, cl, lastEvent, isConnected, rooms0) ==
  /\ rooms' = [rooms0 EXCEPT ![s] =
                 Join(@, ConnectRooms(cl, lastEvent), isConnected)]
  /\ db_online' = [db_online EXCEPT ![Token[s]] = TRUE]
  /\ hpc' = [hpc EXCEPT ![s] = "ready"]
  /\ pend' = [pend EXCEPT ![s] = NoPend]
  /\ signals' = signals \cup {<<"general:user-joined", Token[s], cl.domains>>}

\* sockets.ts 148-183: the user info arrived; the client is built and
\* registered, a connected previous socket is looked for, and the channels of
\* the current domain are asked from the cache
UserInfoDone(s) ==
  /\ hpc[s] = "getUserInfo"
  /\ LET profile_id == Token[s]
         cl == MakeClient(profile_id, pend[s].info)
         hasPrevSocket == /\ _clients[profile_id] # NoSocket
                          /\ connected[_clients[profile_id]]
         registry == [_clients EXCEPT ![profile_id] = s]
         target == PrevSocketTarget(registry, profile_id)
         conn1 == IF hasPrevSocket
                    THEN [connected EXCEPT ![target] = FALSE]
                    ELSE connected
         \* a 'disconnect' listener exists only on a socket whose connection
         \* handler has reached line 218
         fired == hasPrevSocket /\ connected[target] /\ hpc[target] = "ready"
     IN /\ client' = [client EXCEPT ![s] = cl]
        /\ _clients' = registry
        /\ connected' = conn1
        /\ dcRuns' = IF fired THEN [dcRuns EXCEPT ![target] = @ + 1] ELSE dcRuns
        /\ LET rooms1 == IF hasPrevSocket
                           THEN [rooms EXCEPT ![target] = {}] ELSE rooms
           IN IF cl.current_domain = Empty \/ CacheHit(cl.current_domain)
                THEN ConnectionJoin(s, cl,
                       IF cl.current_domain = Empty THEN EmptyMap
                       ELSE cache[cl.current_domain].data, conn1[s], rooms1)
                ELSE /\ rooms' = rooms1
                     /\ hpc' = [hpc EXCEPT ![s] = "getDomainChannels"]
                     /\ pend' = [pend EXCEPT ![s] =
                           [kind |-> "channels",
                            data |-> FetchDomainChannels(cl.current_domain),
                            atStart |-> pend[s].atStart]]
                     /\ UNCHANGED <<db_online, signals>>
  /\ UNCHANGED <<clock, sw, nSwitch, db_app, db_last_event, cache, emitVars, batchVars>>

\* sockets.ts 181-215: the channels of the current domain arrived
DomainChannelsDone(s) ==
  /\ hpc[s] = "getDomainChannels"
  /\ cache' = CacheStore(client[s].current_domain, pend[s].data)
  /\ ConnectionJoin(s, client[s], pend[s].data, connected[s], rooms)
  /\ UNCHANGED <<clock, connected, client, _clients, sw, dcRuns, nSwitch,
                 db_app, db_last_event, emitVars, batchVars>>

\* ----------------------------------------------------- disconnect handler
\* a handler that takes every disconnecting socket for the registered one
StillRegistered_Always(registry, profile_id, s) == TRUE

\* sockets.ts 223: _clients[profile_id].socket.id === socket.id
StillRegistered(registry, profile_id, s) == registry[profile_id] = s

\* a cleanup that leaves the registry as it is
Unregister_Kept(registry, profile_id) == registry

\* sockets.ts 271: delete _clients[profile_id]
Unregister(registry, profile_id) == [registry EXCEPT ![profile_id] = NoSocket]

\* sockets.ts 221-277, run by socket.io after it has emptied the socket's rooms
Disconnect(s) ==
  /\ connected[s]
  /\ connected' = [connected EXCEPT ![s] = FALSE]
  /\ rooms' = [rooms EXCEPT ![s] = {}]
  /\ IF hpc[s] # "ready"
       THEN UNCHANGED <<_clients, db_app, db_online, dcRuns, signals>>
       ELSE /\ dcRuns' = [dcRuns EXCEPT ![s] = @ + 1]
            /\ IF ~StillRegistered(_clients, Token[s], s)
                 \* another socket is registered (return), or no entry at
                 \* all (the property access throws inside wrapper.event)
                 THEN UNCHANGED <<_clients, db_app, db_online, signals>>
                 ELSE /\ db_online' = [db_online EXCEPT ![Token[s]] = FALSE]
                      /\ db_app' = [db_app EXCEPT ![Token[s]] =
                            SetLastAccessed(@, id(client[s].current_domain),
                                            id(client[s].current_channel), clock)]
                      /\ signals' = signals \cup
                            {<<"general:user-left", Token[s], client[s].domains>>}
                      /\ _clients' = Unregister(_clients, Token[s])
  /\ UNCHANGED <<clock, hpc, pend, client, sw, nSwitch, db_last_event, cache,
                 emitVars, batchVars>>

\* sockets.ts 221-271 for the registered socket, when statements of the
\* un-awaited query(sql.multi(ops)) at line 265 fail: okOnline and okAccess
\* tell which of the two writes took effect
DisconnectWriteFails(s, okOnline, okAccess) ==
  /\ connected[s] /\ hpc[s] = "ready" /\ _clients[Token[s]] = s
  /\ ~(okOnline /\ okAccess)
  /\ connected' = [connected EXCEPT ![s] = FALSE]
  /\ rooms' = [rooms EXCEPT ![s] = {}]
  /\ dcRuns' = [dcRuns EXCEPT ![s] = @ + 1]
  /\ db_online' = IF okOnline THEN [db_online EXCEPT ![Token[s]] = FALSE]
                  ELSE db_online
  /\ db_app' = IF okAccess
                 THEN [db_app EXCEPT ![Token[s]] =
                         SetLastAccessed(@, id(client[s].current_domain),
                                         id(client[s].current_channel), clock)]
                 ELSE db_app
  /\ signals' = signals \cup
        {<<"general:user-left", Token[s], client[s].domains>>}
  /\ _clients' = Unregister(_clients, Token[s])
  /\ UNCHANGED <<clock, hpc, pend, client, sw, nSwitch, db_last_event, cache,
                 emitVars, batchVars>>

\* ------------------------------------------------------------ environment
\* time passes
Tick ==
  /\ clock < MaxTime
  /\ clock' = clock + 1
  /\ UNCHANGED <<signals, sockVars, dbVars, emitVars, batchVars>>

\* a cached object gets older than invalidate_time
CacheExpire(domain_id) ==
  /\ CacheHit(domain_id)
  /\ cache' = [cache EXCEPT ![domain_id] = NoEntry]
  /\ UNCHANGED <<signals, clock, sockVars, db_app, db_last_event, db_online, emitVars, batchVars>>

\* ------------------------------------------------- switch-room handler
Slots == {1, 2}
Idle == [pc |-> "idle"]

\* sockets.ts 339-344: last accessed of the room being left, updated locally
TouchLocal(cl, t) ==
  [cl EXCEPT !.last_accessed =
     Put(@, cl.current_domain,
         Put(GetOr(@, cl.current_domain, EmptyMap), cl.current_channel, t))]

\* the switch to another domain joining the inactive room of the new channel
\* instead of its active room
SwitchDomainRooms_Inactive(rs, cl, domain_id, channel_id, lastEvent, isConnected) ==
  LET r1 == Join(Leave(rs, {Room(cl.current_domain)}), {Room(domain_id)}, isConnected)
  IN Join(Leave(r1, {Room(cl.current_channel)}), {_inactive(channel_id)}, isConnected)

\* sockets.ts 354-383: the rooms after a switch to another domain
SwitchDomainRooms(rs, cl, domain_id, channel_id, lastEvent, isConnected) ==
  LET r1 == Join(Leave(rs, {Room(cl.current_domain)}), {Room(domain_id)}, isConnected)
      r2 == Join(Leave(r1, {Room(cl.current_channel)}), {Room(channel_id)}, isConnected)
      r3 == Leave(r2, {_inactive(k) :
                 k \in DOMAIN GetOr(cl.last_accessed, cl.current_domain, EmptyMap)})
  IN Join(r3, SeenRooms(cl.last_accessed, domain_id, channel_id, lastEvent),
          isConnected)

\* the switch inside a domain without leaving the room of the old channel
SwitchChannelRooms_KeepOld(rs, cl, channel_id, isConnected) ==
  LET r1 == Join(rs, {Room(channel_id)}, isConnected)
      r2 == Leave(r1, {_inactive(channel_id)})
  IN Join(r2, {_inactive(cl.current_channel)}, isConnected)

\* the switch inside a domain leaving every inactive room but the one of the
\* old channel
SwitchChannelRooms_OnlyOld(rs, cl, channel_id, isConnected) ==
  LET r1 == Join(Leave(rs, {Room(cl.current_channel)}), {Room(channel_id)}, isConnected)
      r2 == Leave(r1, {_inactive(c) : c \in Channels})
  IN Join(r2, {_inactive(cl.current_channel)}, isConnected)

\* the switch inside a domain without leaving the inactive room of the new
\* channel
SwitchChannelRooms_KeepInactive(rs, cl, channel_id, isConnected) ==
  LET r1 == Join(Leave(rs, {Room(cl.current_channel)}), {Room(channel_id)}, isConnected)
  IN Join(r1, {_inactive(cl.current_channel)}, isConnected)

\* sockets.ts 388-398: the rooms after a switch inside the current domain
SwitchChannelRooms(rs, cl, channel_id, isConnected) ==
  LET r1 == Join(Leave(rs, {Room(cl.current_channel)}), {Room(channel_id)}, isConnected)
      r2 == Leave(r1, {_inactive(channel_id)})
  IN Join(r2, {_inactive(cl.current_channel)}, isConnected)

\* sockets.ts 285-332: a switch-room event arrives; the arguments are checked
\* and the permission transaction is sent
SwitchRoom(s, i, domain_id, channel_id, allowed) ==
  /\ hpc[s] = "ready" /\ connected[s]
  /\ sw[s][i].pc = "idle" /\ \A j \in Slots : j < i => sw[s][j].pc # "idle"
  /\ domain_id # Empty /\ channel_id # Empty
  /\ sw' = [sw EXCEPT ![s][i] =
              \* atStart records channels._last_event as it is when the
              \* request arrives (read by no handler)
              [pc |-> "query", domain_id |-> domain_id,
               channel_id |-> channel_id, canView |-> allowed,
               atStart |-> db_last_event]]
  /\ db_app' = [db_app EXCEPT ![Token[s]] =
                  SwitchTransaction(@, domain_id, channel_id, allowed, clock)]
  /\ nSwitch < MaxSwitch
  /\ nSwitch' = nSwitch + 1
  /\ UNCHANGED <<signals, clock, connected, rooms, hpc, pend, client, _clients, dcRuns,
                 db_last_event, db_online, cache, emitVars, batchVars>>

\* wrapper.ts 15-21, handleError: the error is logged, and sent to the client
\* only if the wrapper was given a client and a message
HandleError(sig, s, hasClient, message) ==
  IF hasClient /\ message # "" THEN sig \cup {<<"error", 500, s>>} ELSE sig

\* sockets.ts 285 and 400: wrapper.event(handler) is given no options for
\* 'general:switch-room'
SwitchThrows(sig, s) == HandleError(sig, s, FALSE, "")

\* sockets.ts 334-337: the transaction returned false
SwitchDenied(s, i) ==
  /\ sw[s][i].pc = "query" /\ ~sw[s][i].canView
  /\ sw' = [sw EXCEPT ![s][i] = Idle]
  /\ signals' = SwitchThrows(signals, s)
  /\ UNCHANGED <<clock, connected, rooms, hpc, pend, client, _clients, dcRuns,
                 nSwitch, dbVars, emitVars, batchVars>>

\* sockets.ts 286-287: a switch-room event without a domain or without a
\* channel; the handler throws before its first await
SwitchInvalid(s, domain_id, channel_id) ==
  /\ hpc[s] = "ready" /\ connected[s]
  /\ domain_id = Empty \/ channel_id = Empty
  /\ nSwitch < MaxSwitch
  /\ nSwitch' = nSwitch + 1
  /\ signals' = SwitchThrows(signals, s)
  /\ UNCHANGED <<clock, connected, rooms, hpc, pend, client, _clients, sw, dcRuns,
                 dbVars, emitVars, batchVars>>

\* sockets.ts 339-399: the transaction returned true
SwitchAllowed(s, i) ==
  /\ sw[s][i].pc = "query" /\ sw[s][i].canView
  /\ LET h == sw[s][i]
         cl == TouchLocal(client[s], clock)
     IN IF h.domain_id # cl.current_domain
          THEN IF CacheHit(h.domain_id)
                 THEN /\ rooms' = [rooms EXCEPT ![s] =
                            SwitchDomainRooms(@, cl, h.domain_id, h.channel_id,
                                cache[h.domain_id].data, connected[s])]
                      /\ client' = [client EXCEPT ![s] =
                            [cl EXCEPT !.current_channel = h.channel_id,
                                       !.current_domain = h.domain_id]]
                      /\ sw' = [sw EXCEPT ![s][i] = Idle]
                 ELSE /\ client' = [client EXCEPT ![s] = cl]
                      /\ sw' = [sw EXCEPT ![s][i] =
                            [pc |-> "getDomainChannels",
                             domain_id |-> h.domain_id,
                             channel_id |-> h.channel_id,
                             data |-> FetchDomainChannels(h.domain_id),
                             atStart |-> h.atStart]]
                      /\ UNCHANGED rooms
          ELSE IF h.channel_id # cl.current_channel
                 THEN /\ rooms' = [rooms EXCEPT ![s] =
                            SwitchChannelRooms(@, cl, h.channel_id, connected[s])]
                      /\ client' = [client EXCEPT ![s] =
                            [cl EXCEPT !.current_channel = h.channel_id]]
                      /\ sw' = [sw EXCEPT ![s][i] = Idle]
                 ELSE /\ client' = [client EXCEPT ![s] = cl]
                      /\ sw' = [sw EXCEPT ![s][i] = Idle]
                      /\ UNCHANGED rooms
  /\ UNCHANGED <<signals, clock, connected, hpc, pend, _clients, dcRuns, nSwitch,
                 dbVars, emitVars, batchVars>>

\* sockets.ts 349-383: the channels of the new domain arrived
SwitchChannelsDone(s, i) ==
  /\ sw[s][i].pc = "getDomainChannels"
  /\ LET h == sw[s][i]
         cl == client[s]
     IN /\ cache' = CacheStore(h.domain_id, h.data)
        /\ rooms' = [rooms EXCEPT ![s] =
              SwitchDomainRooms(@, cl, h.domain_id, h.channel_id, h.data,
                                connected[s])]
        /\ client' = [client EXCEPT ![s] =
              [cl EXCEPT !.current_channel = h.channel_id,
                         !.current_domain = h.domain_id]]
        /\ sw' = [sw EXCEPT ![s][i] = Idle]
  /\ UNCHANGED <<signals, clock, connected, hpc, pend, _clients, dcRuns, nSwitch,
                 db_app, db_last_event, db_online, emitVars, batchVars>>

\* sockets.ts 349 with query.ts 783-795: the fetch of the channels of the new
\* domain rejects (its query fails); the handler throws out of its await,
\* after the transaction has patched the app state, and nothing is cached
SwitchChannelsFail(s, i) ==
  /\ sw[s][i].pc = "getDomainChannels"
  /\ sw' = [sw EXCEPT ![s][i] = Idle]
  /\ signals' = SwitchThrows(signals, s)
  /\ UNCHANGED <<clock, connected, rooms, hpc, pend, client, _clients, dcRuns,
                 nSwitch, dbVars, emitVars, batchVars>>

\* ------------------------------------------------------ emitChannelEvent
Emits == {1, 2}
Io == "io"
NoEmit == [pc |-> "idle"]

\* getClientSocketOrIo(profile_id); NoUser stands for undefined
getClientSocketOrIo(profile_id) ==
  IF profile_id # NoUser /\ _clients[profile_id] # NoSocket
    THEN _clients[profile_id] ELSE Io

\* an emit that reaches the sockets of every room of the same channel
Broadcast_AnyRoomOf(sender, room) ==
  {s \in Sockets : s # sender /\ \E r \in rooms[s] : r[1] = room[1]}

\* sender.to(room).emit(...): the sockets of the room, the sender excepted
Broadcast(sender, room) == {s \in Sockets : room \in rooms[s] /\ s # sender}

\* sender.to(names).emit(...) with an array of room names: the sockets of
\* any of the rooms, or, the adapter being given no room at all, every open
\* socket; the sender excepted
BroadcastTo(sender, names, rs, isConnected) ==
  IF names = {} THEN {s \in Sockets : isConnected[s] /\ s # sender}
  ELSE {s \in Sockets : s # sender /\ \E n \in names : Room(n) \in rs[s]}

\* how often each socket received an event, one more for the sockets of to
Deliver(count, to) == [s \in Sockets |-> IF s \in to THEN count[s] + 1 ELSE count[s]]

\* every call taken to count as an event
CountsAsEvent_Always(is_event) == TRUE

\* sockets.ts 533 and 539: options?.is_event !== false
CountsAsEvent(is_event) == is_event

\* sockets.ts 520-524: the call; the sender is resolved and the channel asked;
\* mark_unseen is the third argument of the activity signal once it is sent
EmitCall(channel_id, profile_id, is_event, event, payload) ==
  [pc |-> "getChannel", channel_id |-> channel_id, profile_id |-> profile_id,
   socket |-> getClientSocketOrIo(profile_id), is_event |-> is_event,
   event |-> event, payload |-> payload, mark_unseen |-> FALSE,
   activity |-> [s \in Sockets |-> 0], full |-> [s \in Sockets |-> 0]]

EmitChannelEvent(e, channel_id, profile_id, is_event) ==
  /\ em[e].pc = "idle"
  /\ nEmit < MaxEmit
  /\ nEmit' = nEmit + 1
  /\ em' = [em EXCEPT ![e] =
               EmitCall(channel_id, profile_id, is_event, "event", EmptyMap)]
  /\ UNCHANGED <<signals, clock, sockVars, dbVars, nSent, batchVars>>

\* sockets.ts 526-536: the activity signal goes to the inactive room and the
\* emitter sends the full event to the room of the channel
EmitSend(e) ==
  /\ em[e].pc = "getChannel"
  /\ em' = [em EXCEPT ![e].pc = "emitter",
        ![e].mark_unseen = CountsAsEvent(em[e].is_event),
        ![e].activity = Deliver(@, Broadcast(em[e].socket, _inactive(em[e].channel_id))),
        ![e].full = Deliver(@, Broadcast(em[e].socket, Room(em[e].channel_id)))]
  /\ nSent' = IF em[e].event = "chat:reactions" THEN nSent + 1 ELSE nSent
  /\ UNCHANGED <<signals, clock, sockVars, dbVars, nEmit, batchVars>>

\* sockets.ts 524: getChannel rejects (the select fails or finds no channel,
\* query.ts 771-774); the call ends before its first emit
EmitGetChannelFails(e) ==
  /\ em[e].pc = "getChannel"
  /\ em' = [em EXCEPT ![e] = NoEmit]
  /\ UNCHANGED <<signals, clock, sockVars, dbVars, nEmit, nSent, batchVars>>

\* sockets.ts 536: the promise of the emitter rejects (ping throws after
\* room.emit); the call ends there
EmitterFails(e) ==
  /\ em[e].pc = "emitter"
  /\ em' = [em EXCEPT ![e] = NoEmit]
  /\ UNCHANGED <<signals, clock, sockVars, dbVars, nEmit, nSent, batchVars>>

\* sockets.ts 549-554: the entry of the channel in the cached list
CacheTouch(channel_id, t) ==
  LET d == ChannelDomain[channel_id]
  IN IF cache[d].valid /\ Has(cache[d].data, channel_id)
       THEN [cache EXCEPT ![d].data = Put(@, channel_id, t)]
       ELSE cache

\* sockets.ts 540-558: the emitter returned
EmitFinish(e) ==
  /\ em[e].pc = "emitter"
  /\ em' = [em EXCEPT ![e] = NoEmit]
  /\ IF CountsAsEvent(em[e].is_event)
       THEN /\ db_last_event' = [db_last_event EXCEPT ![em[e].channel_id] = clock]
            /\ cache' = CacheTouch(em[e].channel_id, clock)
            /\ rooms' = [s \in Sockets |->
                           Leave(rooms[s], {_inactive(em[e].channel_id)})]
       ELSE UNCHANGED <<db_last_event, cache, rooms>>
  /\ UNCHANGED <<signals, clock, connected, hpc, pend, client, _clients, sw, dcRuns,
                 nSwitch, db_app, db_online, nEmit, nSent, batchVars>>

\* ------------------------------------------------------------- batcher
Messages == {"m1"}
Emojis == {"e1", "e2"}
\* the channel of each message
MessageChannel == [m \in Messages |-> C1]
\* `${event}:${key}` for the event 'chat:reactions'
BatchKeys == {<<"chat:reactions", m>> : m \in Messages}
NoBatch == [exists |-> FALSE]
NoCalls == [plus |-> [x \in Emojis |-> 0], minus |-> [x \in Emojis |-> 0]]

\* _batchers['chat:reactions'].create
BatchCreate(channel_id, message_id) ==
  [exists |-> TRUE, channel_id |-> channel_id, message_id |-> message_id,
   changes |-> EmptyMap]

\* an add that stores the last delta instead of the sum
BatchAdd_Overwrite(batch, emoji, delta) ==
  [batch EXCEPT !.changes = Put(@, emoji, delta)]

\* an add that drops the deltas that follow the first of an emoji
BatchAdd_FirstOnly(batch, emoji, delta) ==
  IF Has(batch.changes, emoji) THEN batch
  ELSE [batch EXCEPT !.changes = Put(@, emoji, delta)]

\* _batchers['chat:reactions'].add
BatchAdd(batch, emoji, delta) ==
  IF ~Has(batch.changes, emoji) \/ batch.changes[emoji] = 0
    THEN [batch EXCEPT !.changes = Put(@, emoji, delta)]
    ELSE [batch EXCEPT !.changes = Put(@, emoji, @[emoji] + delta)]

\* a flush timer set by every call
SetTimeout_EveryCall(t, k, isNew) == [t EXCEPT ![k] = @ + 1]

\* batcher.ts 77-89: setTimeout is called only where the entry is created
SetTimeout(t, k, isNew) == IF isNew THEN [t EXCEPT ![k] = @ + 1] ELSE t

\* batcher.ts 69-94: emitBatchEvent('chat:reactions', key, channel_id,
\* message_id, emoji, delta)
EmitBatchEvent(k, channel_id, message_id, emoji, delta) ==
  /\ nCall < MaxCall
  /\ nCall' = nCall + 1
  /\ LET entry == IF _batches[k].exists THEN _batches[k]
                  ELSE BatchCreate(channel_id, message_id)
     IN _batches' = [_batches EXCEPT ![k] = BatchAdd(entry, emoji, delta)]
  /\ timers' = SetTimeout(timers, k, ~_batches[k].exists)
  /\ calls' = [calls EXCEPT ![k] =
        IF delta > 0 THEN [@ EXCEPT !.plus[emoji] = @ + delta]
        ELSE [@ EXCEPT !.minus[emoji] = @ - delta]]
  /\ UNCHANGED <<signals, clock, sockVars, dbVars, emitVars, nFlush>>

\* batcher.ts 82-89 and 52-57: the flush timer of a batch fires
BatchFlush(k, e) ==
  /\ timers[k] > 0
  /\ timers' = [timers EXCEPT ![k] = @ - 1]
  /\ _batches[k].exists
  /\ em[e].pc = "idle"
  /\ em' = [em EXCEPT ![e] =
        EmitCall(_batches[k].channel_id, NoUser, FALSE, "chat:reactions",
                 _batches[k].changes)]
  /\ _batches' = [_batches EXCEPT ![k] = NoBatch]
  /\ calls' = [calls EXCEPT ![k] = NoCalls]
  /\ nFlush' = nFlush + 1
  /\ UNCHANGED <<signals, clock, sockVars, dbVars, nEmit, nSent, nCall>>

\* batcher.ts 82-89: the flush timer fires and batcher.emit throws before it
\* has called emitChannelEvent; the finally block deletes the entry
BatchFlushThrows(k) ==
  /\ timers[k] > 0
  /\ timers' = [timers EXCEPT ![k] = @ - 1]
  /\ _batches[k].exists
  /\ _batches' = [_batches EXCEPT ![k] = NoBatch]
  /\ calls' = [calls EXCEPT ![k] = NoCalls]
  /\ UNCHANGED <<signals, clock, sockVars, dbVars, emitVars, nCall, nFlush>>

\* --------------------------------------------------------- specification
\* the server has just been started over a database holding the app states apps
InitOn(apps) ==
  /\ clock = 0
  /\ connected = [s \in Sockets |-> FALSE]
  /\ rooms = [s \in Sockets |-> {}]
  /\ hpc = [s \in Sockets |-> "new"]
  /\ pend = [s \in Sockets |-> NoPend]
  /\ client = [s \in Sockets |-> NoClient]
  /\ _clients = [p \in Profiles |-> NoSocket]
  /\ sw = [s \in Sockets |-> [i \in Slots |-> Idle]]
  /\ db_app = apps
  /\ db_last_event = [c \in Channels |-> 0]
  /\ db_online = [p \in Profiles |-> FALSE]
  /\ cache = [d \in Domains |-> NoEntry]
  /\ dcRuns = [s \in Sockets |-> 0]
  /\ nSwitch = 0
  /\ nEmit = 0
  /\ em = [e \in Emits |-> NoEmit]
  /\ nSent = 0
  /\ _batches = [k \in BatchKeys |-> NoBatch]
  /\ calls = [k \in BatchKeys |-> NoCalls]
  /\ nCall = 0
  /\ nFlush = 0
  /\ timers = [k \in BatchKeys |-> 0]
  /\ signals = {}

\* a database in which no profile has an app state yet
Init == InitOn([p \in Profiles |-> NoApp])

\* the app state a session of profile pA left behind: it viewed c2, then c1 of
\* domain d1 (the switch-room patches) and disconnected (sockets.ts 238-250)
RestoredApp ==
  SetLastAccessed(SwitchPatch(SwitchPatch(NoApp, D1, C2, 0), D1, C1, 0),
                  id(D1), id(C1), 0)

\* the same session having viewed c4 before c2
SeenApp ==
  SetLastAccessed(
    SwitchPatch(SwitchPatch(SwitchPatch(NoApp, D1, C4, 0), D1, C2, 0), D1, C1, 0),
    id(D1), id(C1), 0)

\* the server is started over a database that holds the app state SeenApp
InitSeen == InitOn([p \in Profiles |-> IF p = "pA" THEN SeenApp ELSE NoApp])

\* the server is started over a database that may hold that app state
InitRestored ==
  \E a \in {NoApp, RestoredApp} :
     InitOn([p \in Profiles |-> IF p = "pA" THEN a ELSE NoApp])

\* the server is started over a database that holds that app state
InitViewing == InitOn([p \in Profiles |-> IF p = "pA" THEN RestoredApp ELSE NoApp])

\* the steps of the connections SS that send no request, and of time
NextConn(SS) ==
  \/ Tick
  \/ \E d \in Domains : CacheExpire(d)
  \/ \E s \in SS : Connection(s)
  \/ \E s \in SS : UserInfoDone(s)
  \/ \E s \in SS : DomainChannelsDone(s)
  \/ \E s \in SS : Disconnect(s)

\* the steps of the connections SS, with switch-room handlers in the slots SL,
\* switch-room requests for the rooms RR and permission answers AA
NextOn(SS, SL, RR, AA) ==
  \/ NextConn(SS)
  \/ \E s \in SS, i \in SL, r \in RR, a \in AA :
        SwitchRoom(s, i, r[1], r[2], a)
  \/ \E s \in SS, i \in SL : SwitchDenied(s, i)
  \/ \E s \in SS, i \in SL : SwitchAllowed(s, i)
  \/ \E s \in SS, i \in SL : SwitchChannelsDone(s, i)

\* the disconnects of the connections SS whose durable writes fail
NextConnFail(SS) ==
  \E s \in SS, okOnline \in BOOLEAN, okAccess \in BOOLEAN :
     DisconnectWriteFails(s, okOnline, okAccess)

\* the switch-room events of the connections SS that lack an argument
NextInvalid(SS) ==
  \E s \in SS, d \in {Empty, D1}, c \in {Empty, C1} : SwitchInvalid(s, d, c)

\* the switch-room handlers of the connections SS whose channel-list fetch
\* rejects
NextFetchFail(SS, SL) ==
  \E s \in SS, i \in SL : SwitchChannelsFail(s, i)

\* the steps of the emitChannelEvent calls EE on the channels CC
NextEmit(EE, CC, PP, BB) ==
  \/ \E e \in EE, c \in CC, p \in PP, b \in BB : EmitChannelEvent(e, c, p, b)
  \/ \E e \in EE : EmitSend(e)
  \/ \E e \in EE : EmitFinish(e)

\* the failures of the emitChannelEvent calls EE
NextEmitFail(EE) ==
  \/ \E e \in EE : EmitGetChannelFails(e)
  \/ \E e \in EE : EmitterFails(e)

\* the steps of the batcher
NextBatch(EE) ==
  \/ \E k \in BatchKeys, x \in Emojis, delta \in {1, -1} :
        EmitBatchEvent(k, MessageChannel[k[2]], k[2], x, delta)
  \/ \E k \in BatchKeys, e \in EE : BatchFlush(k, e)

\* a flush whose emit throws
NextBatchFail ==
  \E k \in BatchKeys : BatchFlushThrows(k)

\* the rooms <<domain, channel>> of the channels that are requested; c4 is
\* a channel that is seen (SeenApp) and never requested
OwnRooms == {<<ChannelDomain[c], c>> : c \in Channels \ {C4}}

Next ==
  \/ NextOn(Sockets, Slots, OwnRooms, BOOLEAN)
  \/ NextEmit(Emits, Channels, Profiles \cup {NoUser}, BOOLEAN)
  \/ NextBatch(Emits)

Spec == Init /\ [][Next]_vars

\* two connections of one identity, one switch-room handler at a time
SpecSession ==
  Init /\ [][NextOn({"s1", "s2"}, {1}, {<<D1, C1>>, <<D2, C3>>}, BOOLEAN)]_vars

\* one connection that has seen three channels of d1, switching between two
\* of them and to d2, and events on the third
SpecChannels ==
  InitSeen /\ [][\/ NextOn({"s1"}, {1}, OwnRooms, BOOLEAN)
                 \/ NextEmit({1}, {C4}, {NoUser}, {TRUE})]_vars

\* one connection with two switch-room handlers in flight and events on c2
SpecRooms ==
  InitRestored /\ [][NextOn({"s1"}, Slots, OwnRooms, BOOLEAN)
                       \/ NextEmit({1}, {C2}, {NoUser}, {TRUE})]_vars

\* connections of two identities in domain d1, one of them restoring the
\* room (d1, c1), and events on c1
SpecFanout ==
  InitViewing /\ [][NextOn({"s1", "s3"}, {1}, {<<D1, C1>>, <<D1, C2>>}, BOOLEAN)
                      \/ NextEmit({1}, {C1}, {NoUser}, {TRUE})]_vars

\* a connection that restores the room (d1, c1), one without a room, neither
\* sending requests, and the reactions batcher
SpecBatch ==
  InitViewing /\ [][NextConn({"s1", "s3"})
                      \/ NextEmit({1}, {C1}, {NoUser}, {TRUE})
                      \/ NextBatch({1})]_vars

\* two connections of the identity whose app state is restored, sending no
\* request, and events and non-events on c2
\* connections with and without a valid token
SpecAuth ==
  InitViewing /\ [][NextConn({"s1", "s2", "s4"})]_vars

\* one connection of a restored identity and concurrent events on a channel it
\* is not viewing; the connection joins rooms once, at its connect
SpecPings ==
  InitViewing /\ [][NextConn({"s1"}) \/ NextEmit(Emits, {C2}, {NoUser}, {TRUE})]_vars

\* events whose getChannel or emitter may fail
SpecFail ==
  InitViewing /\ [][\/ NextConn({"s1", "s3"})
                    \/ NextEmit({1}, {C2}, {NoUser}, {TRUE})
                    \/ NextEmitFail({1})]_vars

\* events emitted on behalf of pA, or of nobody, while pA connects and
\* disconnects
SpecAuthor ==
  InitViewing /\ [][\/ NextConn({"s1", "s2"})
                    \/ NextEmit({1}, {C1}, {"pA", NoUser}, {TRUE})]_vars

\* reaction batches whose emit may throw
SpecTimer ==
  InitViewing /\ [][\/ NextConn({"s1"})
                    \/ NextEmit({1}, {C1}, {NoUser}, {TRUE})
                    \/ NextBatch({1})
                    \/ NextBatchFail]_vars

\* one connection switching between two domains while events are emitted on
\* a channel it has seen
SpecDomains ==
  InitViewing /\ [][\/ NextOn({"s1"}, {1}, {<<D1, C1>>, <<D2, C3>>}, BOOLEAN)
                    \/ NextEmit({1}, {C2}, {NoUser}, {TRUE})]_vars

\* connections of three identities, one of them a member of no domain
SpecPresence ==
  InitViewing /\ [][NextConn({"s1", "s3", "s5"})]_vars

\* connections of two identities whose disconnect writes may fail
SpecOffline ==
  InitViewing /\ [][NextConn({"s1", "s3"}) \/ NextConnFail({"s1", "s3"})]_vars

\* one connection whose switch-room requests may be refused or lack an
\* argument, next to a connection of another identity
SpecReject ==
  InitViewing /\ [][\/ NextOn({"s1"}, {1}, {<<D1, C1>>, <<D2, C3>>}, BOOLEAN)
                    \/ NextInvalid({"s1"})
                    \/ NextConn({"s3"})]_vars

\* one connection with one switch-room handler at a time, whose channel-list
\* fetch may reject
SpecFetch ==
  InitViewing /\ [][\/ NextOn({"s1"}, {1}, {<<D1, C2>>, <<D2, C3>>}, BOOLEAN)
                    \/ NextFetchFail({"s1"}, {1})]_vars

SpecStale ==
  InitViewing /\ [][NextConn({"s1", "s2"})
                      \/ NextEmit({1}, {C2}, {NoUser}, BOOLEAN)]_vars

\* ------------------------------------------------------------ properties
\* the rooms named after channels: the active room and the inactive room
ActiveRooms(s) == {c \in Channels : Room(c) \in rooms[s]}
InactiveRooms(s) == {c \in Channels : _inactive(c) \in rooms[s]}
DomainRooms(s) == {d \in Domains : Room(d) \in rooms[s]}

\* the step in which the connection handler of s registers its client while
\* the registry holds a connected connection of the same identity
RegistersOverPrior(s) ==
  /\ hpc[s] = "getUserInfo" /\ hpc'[s] # "getUserInfo"
  /\ connected[s]
  /\ _clients[Token[s]] \notin {NoSocket, s}
  /\ connected[_clients[Token[s]]]

\* the step in which the connection handler of s reaches its end
ConnectDone(s) == hpc[s] \in {"getUserInfo", "getDomainChannels"} /\ hpc'[s] = "ready"

\* the step in which a permitted switch-room handler of s reaches its end
SwitchDone(s, i) ==
  /\ sw[s][i].pc \in {"query", "getDomainChannels"}
  /\ sw[s][i].pc = "query" => sw[s][i].canView
  /\ sw'[s][i].pc = "idle"

\* C1: when an identity with a connected, registered connection opens a second
\* authenticated connection, the prior connection is terminated, the new one
\* stays connected and the registry names the new one.
C1_PrevEvicted ==
  [][\A s \in Sockets :
       RegistersOverPrior(s) =>
         /\ ~connected'[_clients[Token[s]]]
         /\ connected'[s]
         /\ _clients'[Token[s]] = s]_vars

\* C2: registering a second session over a connected first one leaves exactly
\* one connected session of the identity and triggers the disconnect handling
\* of one of its connections, once.
C2_ReconnectOneLive ==
  [][\A s \in Sockets :
       RegistersOverPrior(s) =>
         /\ Cardinality({u \in Sockets : Token[u] = Token[s] /\ connected'[u]}) = 1
         /\ \E u \in Sockets :
              /\ Token[u] = Token[s]
              /\ dcRuns'[u] = dcRuns[u] + 1
              /\ \A v \in Sockets \ {u} : dcRuns'[v] = dcRuns[v]]_vars

\* C3: in every reachable state each connection is a member of at most one
\* active-channel room.
C3_OneActiveRoom == \A s \in Sockets : Cardinality(ActiveRooms(s)) <= 1

\* s1 restored the room (d1, c1), switched to c2 and holds c2 as its only
\* active room
C3_Witness ==
  /\ connected["s1"] /\ nSwitch >= 1
  /\ client["s1"].current_channel = C2
  /\ ActiveRooms("s1") = {C2}
  /\ _inactive(C1) \in rooms["s1"]

\* C4: in every reachable state no connection is a member of the active room
\* and of the inactive room of the same channel.
C4_ActiveNotInactive == \A s \in Sockets : ActiveRooms(s) \cap InactiveRooms(s) = {}

\* s1 restored (d1, c1) with c2 completely seen, so it joined c2's inactive
\* room; no event came, and its one switch moved it to c2's active room
C4_Witness ==
  /\ db_app["pA"].exists /\ hpc["s1"] = "ready" /\ connected["s1"]
  /\ nEmit = 0 /\ nSwitch = 1 /\ \A i \in Slots : sw["s1"][i].pc = "idle"
  /\ Has(client["s1"].last_accessed, D1)
  /\ Has(client["s1"].last_accessed[D1], C2)
  /\ ActiveRooms("s1") = {C2}
  /\ InactiveRooms("s1") = {C1}

\* the step in which a permitted switch-room request of s arrives in slot i
SwitchRequested(s, i) ==
  /\ sw[s][i].pc = "idle" /\ sw'[s][i].pc = "query" /\ sw'[s][i].canView

\* the step in which the handler in slot i of s, its transaction having
\* returned true, finds the requested room equal to the current room
SameRoomCompared(s, i) ==
  /\ sw[s][i].pc = "query" /\ sw[s][i].canView /\ sw'[s][i].pc # "query"
  /\ sw[s][i].domain_id = client[s].current_domain
  /\ sw[s][i].channel_id = client[s].current_channel

SwitchRefused(s, i) ==
  \/ sw[s][i].pc = "idle" /\ sw'[s][i].pc = "query" /\ ~sw'[s][i].canView
  \/ sw[s][i].pc = "query" /\ ~sw[s][i].canView /\ sw'[s][i].pc = "idle"

\* C6: a switch-room request whose permission check returns false ends at the
\* throw and changes nothing: room memberships, the client (current room and
\* last_accessed in memory) and the persisted app state stay as they were.
C6_DeniedChangesNothing ==
  [][\A s \in Sockets, i \in Slots :
       SwitchRefused(s, i) =>
         /\ rooms' = rooms /\ client' = client /\ db_app' = db_app
         /\ sw'[s][i].pc \in {"query", "idle"}]_vars

\* s1 connected without a persisted state; its one request was refused and
\* its handler has ended
C6_Witness ==
  /\ hpc["s1"] = "ready" /\ connected["s1"] /\ nSwitch = 1
  /\ \A i \in Slots : sw["s1"][i].pc = "idle"
  /\ client["s1"].last_accessed = EmptyMap
  /\ db_app["pA"] = NoApp
  /\ rooms["s1"] = {}

\* the step in which call e of emitChannelEvent, made with default options,
\* emits: the channel has been read, the activity signal and the event go out
EmitSent(e) ==
  /\ em[e].pc = "getChannel" /\ em'[e].pc = "emitter"
  /\ em[e].socket = Io /\ em[e].is_event

\* the step in which call e of emitChannelEvent, made with default options,
\* ends
EmitFinished(e) ==
  /\ em[e].pc = "emitter" /\ em'[e].pc = "idle"
  /\ em[e].socket = Io /\ em[e].is_event

\* C7: one call emitChannelEvent(C, emitter) with default options delivers the
\* full event exactly once to each connection in C's active room and to no
\* other, one activity signal to each connection in C's inactive room and to
\* no other, nothing more while the call runs, and when it ends no connection
\* is in C's inactive room and C's _last_event is the time of the call's end.
C7_FanOut ==
  [][\A e \in Emits :
       /\ EmitSent(e) =>
            \A s \in Sockets :
              /\ em'[e].full[s] = IF em[e].channel_id \in ActiveRooms(s) THEN 1 ELSE 0
              /\ em'[e].activity[s] =
                   IF em[e].channel_id \in InactiveRooms(s) THEN 1 ELSE 0
              /\ em'[e].full[s] + em'[e].activity[s] <= 1
       /\ (em[e].pc = "emitter" /\ em'[e].pc = "emitter") => em'[e] = em[e]
       /\ EmitFinished(e) =>
            /\ \A s \in Sockets : _inactive(em[e].channel_id) \notin rooms'[s]
            /\ db_last_event'[em[e].channel_id] = clock]_vars

\* s1 (identity pA) views c1 and s3 (identity pB) is in c1's inactive room; a
\* call for c1 has sent the event to s1 only and the signal to s3 only
C7_Witness ==
  /\ em[1].pc = "emitter" /\ em[1].channel_id = C1
  /\ em[1].socket = Io /\ em[1].is_event
  /\ C1 \in ActiveRooms("s1") /\ C1 \in InactiveRooms("s3")
  /\ em[1].full = [s \in Sockets |-> IF s = "s1" THEN 1 ELSE 0]
  /\ em[1].activity = [s \in Sockets |-> IF s = "s3" THEN 1 ELSE 0]

\* the emojis for which emitBatchEvent was called since batch k was created
Called(k) == {x \in Emojis : calls[k].plus[x] + calls[k].minus[x] > 0}

\* the number of emitChannelEvent calls made by a flush that have not emitted
Unsent == Cardinality({e \in Emits : em[e].pc = "getChannel"
                                      /\ em[e].event = "chat:reactions"})

\* C8: the calls emitBatchEvent('chat:reactions', ...) made for one message
\* before its flush timer fires, N with delta +1 and M with delta -1 for an
\* emoji, result in exactly one 'chat:reactions' broadcast, whose changes hold
\* N - M for that emoji.
C8_Coalesced ==
  [][/\ \A k \in BatchKeys :
          (_batches[k].exists /\ ~_batches'[k].exists) =>
             /\ nFlush' = nFlush + 1
             /\ \E e \in Emits :
                  /\ em[e].pc = "idle" /\ em'[e].pc = "getChannel"
                  /\ em'[e].event = "chat:reactions"
                  /\ em'[e].channel_id = MessageChannel[k[2]]
                  /\ em'[e].payload =
                       [x \in Called(k) |-> calls[k].plus[x] - calls[k].minus[x]]
     /\ \A e \in Emits :
          (em[e].pc # "idle" /\ em[e].event = "chat:reactions") =>
             /\ em'[e].pc # "idle" => em'[e].payload = em[e].payload
             /\ (em[e].pc = "getChannel" /\ em'[e].pc = "emitter") =>
                  /\ nSent' = nSent + 1
                  /\ \A s \in Sockets :
                       em'[e].full[s] =
                         IF em[e].channel_id \in ActiveRooms(s) THEN 1 ELSE 0
     /\ nSent' + Unsent' = nFlush']_vars

\* s1 views c1; three calls were made for emoji e1 of message m1, two with +1
\* and one with -1, and the one broadcast that followed carried e1 -> 1 to s1
C8_Witness ==
  /\ nCall = 3 /\ nFlush = 1 /\ nSent = 1
  /\ em[1].pc = "emitter" /\ em[1].event = "chat:reactions"
  /\ DOMAIN em[1].payload = {"e1"} /\ em[1].payload["e1"] = 1
  /\ em[1].full["s1"] = 1

FreshClient(s) ==
  /\ client[s].made
  /\ client[s].current_domain = Empty /\ client[s].current_channel = Empty
  /\ DOMAIN client[s].last_accessed \subseteq {Empty}

\* C10: a connection made without a persisted app state is in no active and
\* no inactive channel room; when its first permitted switch-room(d1, c1)
\* completes on the open connection, the persisted app state has domain = d1
\* and channels[d1] = c1 and the connection is in c1's active room and in no
\* other active or inactive channel room.
C10_FreshThenSwitch ==
  [][\A s \in Sockets :
       /\ (ConnectDone(s) /\ hpc[s] = "getUserInfo" /\ ~pend[s].info.hasApp) =>
            ActiveRooms(s)' = {} /\ InactiveRooms(s)' = {}
       /\ \A i \in Slots :
            (SwitchDone(s, i) /\ FreshClient(s) /\ connected[s]) =>
               /\ db_app'[Token[s]].exists
               /\ db_app'[Token[s]].domain = sw[s][i].domain_id
               /\ GetOr(db_app'[Token[s]].channels, id(sw[s][i].domain_id), Null)
                    = sw[s][i].channel_id
               /\ ActiveRooms(s)' = {sw[s][i].channel_id}
               /\ InactiveRooms(s)' = {}]_vars

\* s1 connected without a persisted state, its one switch-room, to (d1, c1),
\* has completed, and no other connection was made
C10_Witness ==
  /\ hpc["s1"] = "ready" /\ connected["s1"] /\ hpc["s2"] = "new"
  /\ nSwitch = 1 /\ sw["s1"][1].pc = "idle"
  /\ client["s1"].current_domain = D1 /\ client["s1"].current_channel = C1
  /\ DOMAIN client["s1"].last_accessed = {Empty}
  /\ db_app["pA"].domain = D1
  /\ ActiveRooms("s1") = {C1} /\ InactiveRooms("s1") = {}

\* C11 (connect): when an event on channel c had finished (at T2) before a
\* connection arrived and the identity's last_accessed for c is T1 < T2, the
\* connect does not place the connection in c's inactive room.
C11_StaleAfterEvent ==
  [][\A s \in Sockets :
       ConnectDone(s) =>
         \A c \in Channels :
           LET m == GetOr(client'[s].last_accessed, client'[s].current_domain,
                          EmptyMap)
           IN (Has(m, c) /\ m[c] < pend[s].atStart[c])
                 => _inactive(c) \notin rooms'[s]]_vars

\* the connections whose token is missing or does not verify
Unauthenticated == {s \in Sockets : Token[s] = NoUser}

\* the connection handler of s runs its authentication step
Rejected(s) == hpc[s] = "new" /\ hpc'[s] # "new"

\* C12 (authentication): a connection whose token is missing or invalid
\* receives an 'error' signal with status 401 and is closed; the step emits
\* nothing else (no presence broadcast), writes nothing durable, and leaves
\* the registry, every room and every other connection as they were; such a
\* connection is never registered, never in a room and never open.
C12_InvalidTokenRejected ==
  [][\A s \in Unauthenticated :
       /\ Rejected(s) =>
            /\ hpc'[s] = "rejected"
            /\ <<"error", 401, s>> \in signals'
            /\ signals' \ signals = {<<"error", 401, s>>}
            /\ UNCHANGED <<_clients, rooms, connected, client, sw, dcRuns>>
            /\ UNCHANGED <<db_app, db_online, db_last_event, cache>>
            /\ \A o \in Sockets \ {s} : hpc'[o] = hpc[o] /\ pend'[o] = pend[o]
       /\ ~connected'[s] /\ rooms'[s] = {}
       /\ \A p \in Profiles : _clients'[p] # s
       /\ \A g \in signals' : g[1] # "error" => g[2] \in Profiles]_vars

\* s4 was rejected while pA has a registered, open session that is still in
\* its rooms
C12_Witness ==
  /\ hpc["s4"] = "rejected" /\ <<"error", 401, "s4">> \in signals
  /\ _clients["pA"] \in {"s1", "s2"}
  /\ hpc[_clients["pA"]] = "ready" /\ connected[_clients["pA"]]
  /\ rooms[_clients["pA"]] # {}

\* the persisted last_accessed of profile p for a room, -1 when there is none
Persisted(state, domain_id, channel_id) ==
  GetOr(GetOr(state.last_accessed, id(domain_id), EmptyMap), id(channel_id), -1)

\* connection s sends the transaction of a permitted switch-room away from
\* the room it is viewing
SwitchLeaves(s, i) ==
  /\ sw[s][i].pc = "idle" /\ sw'[s][i].pc = "query" /\ sw'[s][i].canView
  /\ client[s].current_channel # Empty
  /\ <<client[s].current_domain, client[s].current_channel>>
        # <<sw'[s][i].domain_id, sw'[s][i].channel_id>>

\* C13 (switch-room): the transaction of a permitted switch-room that leaves
\* the active channel (old_domain, old_channel) sets
\* last_accessed[old_domain][old_channel] of the persisted app state to now.
C13_OldRoomPersisted ==
  [][\A s \in Sockets : \A i \in Slots :
       SwitchLeaves(s, i) =>
         Persisted(db_app'[Token[s]], client[s].current_domain,
                   client[s].current_channel) = clock]_vars

\* the call e has sent connection s an activity signal with mark_unseen = true
\* for channel c and has not yet returned
PingedBy(e, s, c) ==
  /\ em[e].pc = "emitter" /\ em[e].channel_id = c /\ em[e].is_event
  /\ em[e].activity[s] > 0

\* C14 (emitChannelEvent): a connection that joined the inactive room of a
\* channel once receives at most one activity signal with mark_unseen = true
\* for it, also from calls that overlap: no two calls that are both waiting
\* for their emitter have signalled the same connection for the same channel.
C14_NoDuplicatePing ==
  \A s \in Sockets : \A c \in Channels : \A e1, e2 \in Emits :
    (PingedBy(e1, s, c) /\ PingedBy(e2, s, c)) => e1 = e2

\* the call e ends, by returning or by failing
EmitEnds(e) == em[e].pc # "idle" /\ em'[e].pc = "idle"

\* C15 (emitChannelEvent): a counts-as-event call that ends has either sent
\* its broadcasts, advanced the channel's last_event to now and emptied the
\* channel's inactive room, or sent nothing and changed nothing.
C15_AllOrNothing ==
  [][\A e \in Emits :
       (EmitEnds(e) /\ em[e].is_event) =>
         LET c == em[e].channel_id
         IN \/ /\ em[e].pc = "emitter"
               /\ db_last_event'[c] = clock
               /\ \A s \in Sockets : _inactive(c) \notin rooms'[s]
            \/ /\ em[e].pc = "getChannel"
               /\ UNCHANGED <<db_last_event, cache, rooms>>]_vars

\* a step of the call e
EmitStep(e) == em'[e] # em[e]

\* C16 (emitChannelEvent): a call with is_event = false sends its activity
\* signal with mark_unseen = false, and no step of it changes a channel's
\* _last_event, in the database or in the cached list, or the membership of
\* any room.
C16_NotAnEvent ==
  [][\A e \in Emits :
       (EmitStep(e) /\ em'[e].pc # "getChannel" /\ ~em[e].is_event) =>
         /\ UNCHANGED <<db_last_event, cache, rooms>>
         /\ em'[e].pc = "emitter" => ~em'[e].mark_unseen]_vars

\* a call on c2 with is_event = false has sent its activity signal, with
\* mark_unseen = false, to a connection of pA that is in c2.inactive, at a
\* time later than c2's _last_event
C16_Witness ==
  /\ em[1].pc = "emitter" /\ ~em[1].is_event /\ ~em[1].mark_unseen
  /\ em[1].channel_id = C2 /\ clock = 1 /\ db_last_event[C2] = 0
  /\ \E s \in Sockets :
        connected[s] /\ _inactive(C2) \in rooms[s] /\ em[1].activity[s] = 1

\* the call e sends its activity signal and its full event
EmitEmits(e) == em[e].pc = "getChannel" /\ em'[e].pc = "emitter"

\* the connections that receive the full event, and the activity signal, in
\* the step in which the call e emits
GotFull(e) == {s \in Sockets : em'[e].full[s] > em[e].full[s]}
GotActivity(e) == {s \in Sockets : em'[e].activity[s] > em[e].activity[s]}

\* the registered connection of a profile, none for NoUser or without entry
Registered(profile_id) ==
  IF profile_id = NoUser \/ _clients[profile_id] = NoSocket THEN {}
  ELSE {_clients[profile_id]}

\* C17 (emitChannelEvent): when a call made with profile_id P emits, the full
\* event goes to exactly the members of the channel's room other than P's
\* registered connection, which receives neither the full event nor the
\* activity signal; with no registered session of P, or no profile_id, the
\* full event goes to every member of the room.
C17_AuthorExcluded ==
  [][\A e \in Emits :
       EmitEmits(e) =>
         LET c == em[e].channel_id
             own == Registered(em[e].profile_id)
         IN /\ GotFull(e) = {s \in Sockets : Room(c) \in rooms[s]} \ own
            /\ GotActivity(e) \cap own = {}]_vars

\* an emitBatchEvent call for the key k
BatchCalled(k) == nCall' = nCall + 1 /\ calls'[k] # calls[k]

\* a flush timer of the key k fires
TimerFires(k) == timers'[k] < timers[k]

\* the number of emitChannelEvent calls that start in a step
EmitsStarted == Cardinality({e \in Emits : em[e].pc = "idle" /\ em'[e].pc # "idle"})

\* C18 (batcher): a batch key has an accumulator exactly while it has a
\* pending flush timer, and never more than one timer; a call without an
\* accumulator creates one, holding only its own change, and sets the timer;
\* a call with an accumulator sets no timer and keeps the accumulator; the
\* timer discards the accumulator, having started at most one
\* emitChannelEvent call, or none if the emit threw.
C18_OneBatchOneTimer ==
  [][\A k \in BatchKeys :
       /\ timers'[k] <= 1
       /\ _batches'[k].exists <=> timers'[k] = 1
       /\ BatchCalled(k) =>
            /\ _batches'[k].exists
            /\ timers'[k] = IF _batches[k].exists THEN timers[k] ELSE timers[k] + 1
            /\ ~_batches[k].exists => Cardinality(DOMAIN _batches'[k].changes) = 1
            /\ EmitsStarted = 0
       /\ TimerFires(k) =>
            /\ ~_batches'[k].exists /\ timers'[k] = 0
            /\ EmitsStarted <= 1
            /\ nFlush' = nFlush + EmitsStarted
            /\ nCall' = nCall]_vars

\* a batch was flushed by an emit that threw, and the next call has started a
\* new batch with its own timer
C18_Witness ==
  /\ nCall = 3 /\ nFlush = 0 /\ nEmit = 0 /\ em[1].pc = "idle"
  /\ \E k \in BatchKeys :
        /\ _batches[k].exists /\ timers[k] = 1
        /\ Cardinality(DOMAIN _batches[k].changes) = 1
        /\ calls[k].plus["e1"] + calls[k].minus["e1"] = 1

\* C19 (connect): a connection that completes its connect open, with restored
\* domain D and channel K, is in the inactive room of exactly the channels c
\* other than K that have an entry last_accessed[D][c] >= last_event(c): none
\* whose entry is older than the event time c had when the connection arrived
\* (or that has no entry, or is K), and every one whose entry is not older
\* than the event time c has now.
C19_ExactlyFresh ==
  [][\A s \in Sockets :
       (ConnectDone(s) /\ connected'[s] /\ client'[s].current_domain # Empty) =>
         LET m == GetOr(client'[s].last_accessed, client'[s].current_domain,
                        EmptyMap)
             K == client'[s].current_channel
         IN \A c \in Channels :
              /\ _inactive(c) \in rooms'[s] =>
                    (Has(m, c) /\ c # K /\ m[c] >= pend[s].atStart[c])
              /\ (Has(m, c) /\ c # K /\ m[c] >= db_last_event'[c]) =>
                    _inactive(c) \in rooms'[s]]_vars

\* the handler in slot i of s completes a switch to another domain while s
\* is open
DomainSwitchDone(s, i) ==
  /\ SwitchDone(s, i) /\ connected'[s]
  /\ client'[s].current_domain # client[s].current_domain
  /\ client[s].current_domain # Empty

\* C20 (switch-room): after a permitted switch from domain D_old to
\* (D_new, C_new) the connection is in no room of the old context (not the
\* room of D_old, not the old active room, no inactive room of a D_old
\* channel), is in the room of D_new and in the room of C_new, and is in the
\* inactive room of exactly the D_new channels other than C_new that are
\* fresh: none whose last_accessed is older than the event time the channel
\* had when the request arrived, and every one whose last_accessed is not
\* older than the event time it has now.
C20_DomainSwitchRooms ==
  [][\A s \in Sockets : \A i \in Slots :
       DomainSwitchDone(s, i) =>
         LET old == client[s].current_domain
             new == sw[s][i].domain_id
             m == GetOr(client'[s].last_accessed, new, EmptyMap)
         IN /\ Room(old) \notin rooms'[s]
            /\ Room(client[s].current_channel) \notin rooms'[s]
            /\ \A c \in Channels :
                  ChannelDomain[c] = old => _inactive(c) \notin rooms'[s]
            /\ DomainRooms(s)' = {new}
            /\ ActiveRooms(s)' = {sw[s][i].channel_id}
            /\ \A c \in Channels :
                  /\ _inactive(c) \in rooms'[s] =>
                        /\ ChannelDomain[c] = new /\ c # sw[s][i].channel_id
                        /\ Has(m, c) /\ m[c] >= sw[s][i].atStart[c]
                  /\ (/\ ChannelDomain[c] = new /\ c # sw[s][i].channel_id
                      /\ Has(m, c) /\ m[c] >= db_last_event'[c]) =>
                        _inactive(c) \in rooms'[s]]_vars

\* the handler in slot i of s completes a switch to another channel of the
\* current domain while s is open
ChannelSwitchDone(s, i) ==
  /\ SwitchDone(s, i) /\ connected'[s]
  /\ sw[s][i].domain_id = client[s].current_domain
  /\ sw[s][i].channel_id # client[s].current_channel
  /\ client[s].current_channel # Empty

\* C21 (switch-room): after a permitted switch inside the current domain from
\* C_old to C_new the connection is in the room of C_new and in the inactive
\* room of C_old, in neither the room of C_old nor the inactive room of
\* C_new, and its membership in the domain rooms and in the inactive room of
\* every other channel is as before.
C21_ChannelSwitchRooms ==
  [][\A s \in Sockets : \A i \in Slots :
       ChannelSwitchDone(s, i) =>
         LET old == client[s].current_channel
             new == sw[s][i].channel_id
         IN /\ Room(new) \in rooms'[s] /\ _inactive(old) \in rooms'[s]
            /\ Room(old) \notin rooms'[s] /\ _inactive(new) \notin rooms'[s]
            /\ DomainRooms(s)' = DomainRooms(s)
            /\ InactiveRooms(s)' \ {old, new} = InactiveRooms(s) \ {old, new}
            /\ client'[s].current_channel = new
            /\ client'[s].current_domain = client[s].current_domain]_vars

\* s1 has switched from c1 to c2 inside d1 and is still in the inactive room
\* of c4, which it joined at its connect
C21_Witness ==
  /\ hpc["s1"] = "ready" /\ connected["s1"] /\ nSwitch = 1
  /\ sw["s1"][1].pc = "idle" /\ client["s1"].current_channel = C2
  /\ rooms["s1"] = {Room(D1), Room(C2), _inactive(C1), _inactive(C4)}

\* the disconnect handler of s announces that its identity left
LeftAnnounced(s) ==
  /\ connected[s] /\ ~connected'[s]
  /\ <<"general:user-left", Token[s], client[s].domains>> \in signals' \ signals

\* the open connections in the room of a domain the profile is a member of
InDomainOf(profile_id) ==
  {o \in Sockets : \E d \in MemberOf[profile_id] : Room(d) \in rooms[o]}

\* C22 (presence): the user-joined announcement of a connect and the
\* user-left announcement of a disconnect reach only connections that are in
\* the room of a domain the identity is a member of, and not the connection
\* that connects or disconnects; for an identity that is a member of no
\* domain they reach nobody.
C22_PresenceToDomains ==
  [][\A s \in Sockets :
       (ConnectDone(s) \/ LeftAnnounced(s)) =>
         LET got == BroadcastTo(s, client'[s].domains, rooms', connected')
         IN /\ got \subseteq InDomainOf(Token[s])'
            /\ s \notin got
            /\ MemberOf[Token[s]] = {} => got = {}]_vars

\* the registered, listening connection s of an identity disconnects
RegisteredDisconnects(s) ==
  /\ connected[s] /\ ~connected'[s]
  /\ hpc[s] = "ready" /\ _clients[Token[s]] = s

\* C23 (disconnect): when the registered connection of an identity
\* disconnects, the registry entry of the identity is removed and user-left
\* is announced, whether or not the writes of the handler (profile offline,
\* last_accessed) take effect.
C23_CleanupDespiteFailure ==
  [][\A s \in Sockets :
       RegisteredDisconnects(s) =>
         /\ _clients'[Token[s]] = NoSocket
         /\ <<"general:user-left", Token[s], client[s].domains>> \in signals'
         /\ rooms'[s] = {}]_vars

\* the registered connection of pA has disconnected and the offline write
\* did not take effect: the profile is still marked online; the registry has
\* no entry and user-left was announced
C23_Witness ==
  /\ hpc["s1"] = "ready" /\ ~connected["s1"] /\ clock = 1
  /\ db_online["pA"] /\ db_app["pA"] = RestoredApp
  /\ _clients["pA"] = NoSocket
  /\ <<"general:user-left", "pA", MemberOf["pA"]>> \in signals

\* the listening connection s disconnects while the registry names another
\* connection of its identity, or none
UnregisteredDisconnects(s) ==
  /\ connected[s] /\ ~connected'[s]
  /\ hpc[s] = "ready" /\ _clients[Token[s]] # s

\* C24 (disconnect): the disconnect of a connection that is not the one
\* registered for its identity changes neither the registry nor the profile's
\* online mark nor any last_accessed, and announces nothing.
C24_StaleDisconnectIgnored ==
  [][\A s \in Sockets :
       UnregisteredDisconnects(s) =>
         UNCHANGED <<_clients, db_online, db_app, signals>>]_vars

\* s1 has disconnected after s2 had taken its place in the registry: the
\* entry still names s2 and the profile is still marked online
C24_Witness ==
  /\ hpc["s1"] = "ready" /\ ~connected["s1"] /\ dcRuns["s1"] = 1
  /\ _clients["pA"] = "s2" /\ db_online["pA"]

\* the room of the permitted switch-room request of the profile that arrived
\* last: its transaction, applied on arrival, patched `domain` and `channels`
LastPermitted(profile_id) ==
  <<db_app[profile_id].domain,
    GetOr(db_app[profile_id].channels, id(db_app[profile_id].domain), Null)>>

\* no switch-room handler of s is running
Quiet(s) == \A i \in Slots : sw[s][i].pc = "idle"

\* C25 (switch-room): once the handlers of two switch-room requests sent on
\* one open connection have both finished, the session's current domain and
\* channel, and the one channel room it is in, are those of the permitted
\* request that arrived later.
C25_ArrivalOrder ==
  \A s \in {"s1"} :
    (hpc[s] = "ready" /\ connected[s] /\ Quiet(s) /\ nSwitch >= 2
       /\ db_app[Token[s]].exists /\ db_app[Token[s]].domain # Null) =>
      /\ <<client[s].current_domain, client[s].current_channel>>
            = LastPermitted(Token[s])
      /\ ActiveRooms(s) = {LastPermitted(Token[s])[2]}

\* the disconnect handler of s has run to its end: s is closed and the registry
\* entry of its identity is gone
CleanedUp(s) ==
  /\ ~connected[s] /\ dcRuns[s] > 0 /\ _clients[Token[s]] = NoSocket

\* the switch-room handler in slot i of s resumes after an await
SwitchResumes(s, i) == sw[s][i].pc # "idle" /\ sw'[s][i] # sw[s][i]

\* C26 (switch-room and disconnect): a switch-room handler that resumes from
\* its transaction or from its channel-list fetch after the disconnect cleanup
\* of its connection has run changes neither the session record nor any room
\* membership nor the persisted app state.
C26_NoResumeAfterCleanup ==
  [][\A s \in Sockets : \A i \in Slots :
       (CleanedUp(s) /\ SwitchResumes(s, i)) =>
         UNCHANGED <<client, rooms, db_app>>]_vars

\* a switch-room event of s is rejected: it lacks an argument, or its
\* transaction returned false
SwitchRejected(s) ==
  \/ \E i \in Slots : sw[s][i].pc = "query" /\ ~sw[s][i].canView
                         /\ sw'[s][i].pc = "idle"
  \/ nSwitch' = nSwitch + 1 /\ sw' = sw /\ hpc[s] = "ready" /\ connected[s]

\* C27 (switch-room): when a switch-room request is rejected, for a missing
\* argument or for lack of permission, the connection that sent it receives
\* an error signal and no other connection does.
C27_RejectionSignalled ==
  [][\A s \in {"s1"} :
       SwitchRejected(s) =>
         /\ \E g \in signals' : g[1] = "error" /\ g[3] = s
         /\ \A g \in signals' \ signals : g[1] = "error" => g[3] = s]_vars

\* the sum of f over the set S
RECURSIVE Sum(_, _)
Sum(f, S) ==
  IF S = {} THEN 0
  ELSE LET x == CHOOSE y \in S : TRUE IN f[x] + Sum(f, S \ {x})

\* what is held for an emoji and not yet broadcast: in the accumulators and
\* in the flushed batches whose emitChannelEvent call has not emitted
Pending(x) ==
  Sum([k \in BatchKeys |->
         IF _batches[k].exists THEN GetOr(_batches[k].changes, x, 0) ELSE 0],
      BatchKeys)
  + Sum([e \in Emits |->
           IF em[e].pc = "getChannel" /\ em[e].event = "chat:reactions"
             THEN GetOr(em[e].payload, x, 0) ELSE 0],
        Emits)

\* the deltas passed for an emoji to the batches in progress
Passed(x) == Sum([k \in BatchKeys |-> calls[k].plus[x] - calls[k].minus[x]], BatchKeys)

\* the call e broadcasts a flushed batch
FlushSent(e) == EmitEmits(e) /\ em[e].event = "chat:reactions"

\* C28 (batcher): deltas are conserved. A call adds its delta to what is
\* pending for its emoji and to nothing else; a flush moves the accumulator
\* whole into one emitChannelEvent call and removes it in the same step; the
\* broadcast of that call carries it once; no other step changes what is
\* pending.
C28_Conservation ==
  [][\A x \in Emojis :
       /\ (nCall' = nCall + 1) =>
            Pending(x)' - Pending(x) = Passed(x)' - Passed(x)
       /\ (\E k \in BatchKeys : TimerFires(k)) =>
            /\ Pending(x)' = Pending(x)
            /\ \A k \in BatchKeys : TimerFires(k) => ~_batches'[k].exists
            /\ EmitsStarted = 1
       /\ \A e \in Emits :
            FlushSent(e) =>
              /\ Pending(x)' = Pending(x) - GetOr(em[e].payload, x, 0)
              /\ em'[e].payload = em[e].payload /\ nSent' = nSent + 1
       /\ (/\ nCall' = nCall /\ \A k \in BatchKeys : ~TimerFires(k)
           /\ \A e \in Emits : ~FlushSent(e)) =>
            (Pending(x)' = Pending(x) /\ nSent' = nSent)]_vars

\* two +1 for emoji e1 were flushed and broadcast as e1 -> 2 while a third
\* call, a -1 made after the flush, is held by a new accumulator
C28_Witness ==
  /\ nCall = 3 /\ nFlush = 1 /\ nSent = 1
  /\ em[1].pc = "emitter" /\ em[1].event = "chat:reactions"
  /\ GetOr(em[1].payload, "e1", 0) = 2
  /\ \E k \in BatchKeys :
        _batches[k].exists /\ GetOr(_batches[k].changes, "e1", 0) = -1

\* no connection handler and no switch-room handler is between two of its steps
NoHandlerRunning ==
  /\ \A s \in Sockets : hpc[s] \in {"new", "ready", "rejected"}
  /\ \A s \in Sockets : Quiet(s)

\* the identity has no open connection
NoConnection(profile_id) ==
  \A s \in Sockets : Token[s] = profile_id => ~connected[s]

\* C29 (sessions): whenever no handler is running, an identity without an
\* open connection has no entry in the registry and its profile is marked
\* offline.
C29_NoGhostSession ==
  NoHandlerRunning =>
    \A p \in Profiles :
      NoConnection(p) => (_clients[p] = NoSocket /\ ~db_online[p])

\* the current room of the persisted app state: `domain` and
\* `channels[domain]`, nothing being persisted read as no room
PersistedRoom(profile_id) ==
  IF ~db_app[profile_id].exists \/ db_app[profile_id].domain = Null
    THEN <<Empty, Empty>>
    ELSE <<db_app[profile_id].domain,
           GetOr(db_app[profile_id].channels, id(db_app[profile_id].domain), Empty)>>

\* the current room of the session of s
SessionRoom(s) == <<client[s].current_domain, client[s].current_channel>>

\* the step in which the switch-room handler in slot i of s ends, whether it
\* returns or throws
SwitchFinishes(s, i) == sw[s][i].pc # "idle" /\ sw'[s][i].pc = "idle"

\* C30 (switch-room): when a switch-room handler ends, by returning or by
\* throwing at its permission check or at its channel-list fetch, the
\* persisted current room equals the session's current domain and channel,
\* and an open connection is in the room of that channel and of no other.
C30_PersistedMatchesSession ==
  [][\A s \in {"s1"} : \A i \in Slots :
       SwitchFinishes(s, i) =>
         /\ PersistedRoom(Token[s])' = SessionRoom(s)'
         /\ connected'[s] => ActiveRooms(s)' = {client'[s].current_channel}]_vars

====
